---------------------------- MODULE Spec2Model ----------------------------
(***************************************************************************)
(* Model of the asynchronous logger of include/log.h: class Logger (init,  *)
(* log, wait, shutdown, _processLogQueue) and the LogInit lifecycle guard. *)
(*                                                                         *)
(* Threads: one lifecycle thread (the thread that runs INIT_LOG,           *)
(* Logger::init and Logger::shutdown), NumThreads caller threads that call *)
(* log() and wait(), and the background thread _tAsyncThread.              *)
(*                                                                         *)
(* Every critical section that is entered and left inside one function     *)
(* without blocking (lock_guard scopes) is one step; the consumer, which   *)
(* keeps its unique_lock across loop iterations, holds tMutex across       *)
(* steps.  The reads of _bStopThread that the code makes without the lock  *)
(* (log, the outer while of _processLogQueue) are separate steps.          *)
(***************************************************************************)
EXTENDS Integers, Sequences, FiniteSets, TLC

\* ---------------------------------------------------------------- bounds
NumThreads == 2   \* caller threads
MaxCalls   == 4   \* calls of init, shutdown, log and wait in one run
MaxPathLen == 3   \* characters of an origin file path

\* ------------------------------------------------------------- constants
\* enum class LogLevel
DBUG == 0
INFO == 1
WARN == 2
EROR == 3

Threads  == 1..NumThreads
Consumer == 0       \* identity of _tAsyncThread as mutex owner / cv waiter
Free     == -1      \* tMutex is not held

\* levels passed to init() and to log() by the callers
InitLevels == {INFO, WARN}
LogLevels  == {INFO}

VARIABLES
    bStopThread,    \* _bStopThread
    eLogLevel,      \* _eLogLevel
    fileOpen,       \* _tFileStream.is_open()
    tMutex,         \* owner of _tMutex, or Free
    cvWaiters,      \* threads blocked on _tLogQueueCondition
    LogQueue,       \* _LogQueue
    pcC,            \* position of _tAsyncThread
    logEntry,       \* local logEntry of _processLogQueue (<<>> if none)
    file,           \* lines written to _tFileStream
    console,        \* lines written to std::cout
    pc,             \* position of each caller thread
    res,            \* outcome of the last call of each caller thread
    pending,        \* arguments of the latest log() call of each thread
    nCall,          \* log() and wait() calls made by each caller thread
    pcM,            \* position of the lifecycle thread
    resM,           \* outcome of the last lifecycle call
    logInit,        \* the static LogInit instance has been constructed
    nInit,          \* runs of Logger::init
    nShutdown,      \* calls of Logger::shutdown
    nRepeat,        \* INIT_LOG calls that found the LogInit instance made
    enq,            \* history: records pushed, in push order
    snap,           \* history: enq at the latest call of shutdown()
    openFailed,     \* history: some init() failed to open the file
    firstArgs,      \* history: arguments of the first INIT_LOG call
    filePath,       \* _extractFilename: the argument, without its NUL
    ptr,            \* _extractFilename: index of *ptr in filePath
    filename,       \* _extractFilename: index of *filename in filePath
    extracted,      \* the std::string _extractFilename returned
    oss,            \* _formatLogMessage: what line 279 put into the stream
    fmtPc           \* position inside _formatLogMessage

vars == <<bStopThread, eLogLevel, fileOpen, tMutex, cvWaiters, LogQueue,
          pcC, logEntry, file, console, pc, res, pending, nCall,
          pcM, resM, logInit, nInit, nShutdown, nRepeat,
          enq, snap, openFailed, firstArgs,
          filePath, ptr, filename, extracted, oss, fmtPc>>

engineVars  == <<bStopThread, eLogLevel, fileOpen>>
syncVars    == <<tMutex, cvWaiters>>
consVars    == <<pcC, logEntry>>
sinkVars    == <<file, console>>
callerVars  == <<pc, res, pending, nCall>>
mainVars    == <<pcM, resM, logInit, nInit, nShutdown, nRepeat>>
histVars    == <<enq, snap, openFailed, firstArgs>>
fmtVars     == <<filePath, ptr, filename, extracted, oss, fmtPc>>
loggerVars  == <<engineVars, syncVars, LogQueue, consVars, sinkVars,
                 callerVars, mainVars, histVars>>

NoEntry == <<>>

RECURSIVE SumOver(_, _)
SumOver(f, S) ==
    IF S = {} THEN 0
    ELSE LET x == CHOOSE y \in S : TRUE IN f[x] + SumOver(f, S \ {x})

\* calls made so far; a run makes at most MaxCalls of them
calls == SumOver(nCall, Threads) + nInit + nShutdown + nRepeat

\* std::thread::joinable() of _tAsyncThread
joinable == pcC \notin {"c_none", "c_joined"}

\* lifecycle of the engine as its callers see it: the process has been
\* ended by std::terminate; init has never run; init has run and no shutdown
\* has been called since; shutdown is running; a shutdown has joined the
\* thread and init has not run since
state ==
    IF pcM = "aborted" THEN "Aborted"
    ELSE IF nInit = 0 THEN "Uninitialized"
    ELSE IF ~joinable THEN "Stopped"
    ELSE IF pcM = "m_idle" THEN "Running"
    ELSE "Stopping"

\* std::condition_variable::notify_one: wakes one blocked thread, if any
notify_one(ws) ==
    IF ws = {} THEN {ws} ELSE {ws \ {w} : w \in ws}

\* ------------------------------------------------------------------ Init
\* Logger(): _eLogLevel(INFO), _bStopThread = true, no thread, closed file
LoggerInit ==
    /\ bStopThread = TRUE
    /\ eLogLevel = INFO
    /\ fileOpen = FALSE
    /\ tMutex = Free
    /\ cvWaiters = {}
    /\ LogQueue = <<>>
    /\ pcC = "c_none"
    /\ logEntry = NoEntry
    /\ file = <<>>
    /\ console = <<>>
    /\ pc = [t \in Threads |-> "idle"]
    /\ res = [t \in Threads |-> "none"]
    /\ pending = [t \in Threads |-> NoEntry]
    /\ nCall = [t \in Threads |-> 0]
    /\ pcM = "m_idle"
    /\ resM = "ok"
    /\ logInit = FALSE
    /\ nInit = 0
    /\ nShutdown = 0
    /\ nRepeat = 0
    /\ enq = <<>>
    /\ snap = <<>>
    /\ openFailed = FALSE
    /\ firstArgs = <<>>

\* no record is being formatted
Init ==
    /\ LoggerInit
    /\ filePath = <<>>
    /\ ptr = 1
    /\ filename = 1
    /\ extracted = <<>>
    /\ oss = <<>>
    /\ fmtPc = "x_none"

\* ----------------------------------------------------------- Logger::init
\* _setLogLevel, _setLogFile (under the mutex), _bStopThread = false, start
\* of the thread.  ok says whether the file could be opened.  Assigning to
\* a joinable std::thread calls std::terminate; no caller of the model does
\* that, so init runs only while _tAsyncThread is not joinable.  Until the
\* flag is cleared every log() throws, so the steps of init are one step.
\* mutant of initBody: a file that cannot be opened makes init give up
\* before it starts the thread
initBody_stopOnOpenFailure(level, ok) ==
    /\ ~joinable
    /\ tMutex = Free
    /\ calls < MaxCalls
    /\ eLogLevel' = level
    /\ fileOpen' = ok
    /\ bStopThread' = IF ok THEN FALSE ELSE bStopThread
    /\ pcC' = IF ok THEN "c_while" ELSE pcC
    /\ nInit' = nInit + 1
    /\ resM' = IF ok THEN "ok" ELSE "LogException"
    /\ openFailed' = (openFailed \/ ~ok)
    /\ UNCHANGED <<syncVars, LogQueue, logEntry, sinkVars, callerVars,
                   pcM, nShutdown, enq, snap>>
    /\ UNCHANGED fmtVars

initBody(level, ok) ==
    /\ ~joinable
    /\ tMutex = Free
    /\ calls < MaxCalls
    /\ eLogLevel' = level
    /\ fileOpen' = ok
    /\ bStopThread' = FALSE
    /\ pcC' = "c_while"
    /\ nInit' = nInit + 1
    /\ resM' = "ok"
    /\ openFailed' = (openFailed \/ ~ok)
    /\ UNCHANGED <<syncVars, LogQueue, logEntry, sinkVars, callerVars,
                   pcM, nShutdown, enq, snap>>
    /\ UNCHANGED fmtVars

init(level, ok) ==
    /\ pcM = "m_idle"
    /\ initBody(level, ok)
    /\ UNCHANGED <<logInit, nRepeat, firstArgs>>

\* INIT_LOG(...) == LogInit::getInstance(level, filename): the static local
\* instance is constructed, and Logger::init run, by the first call only.
\* The first call is made by the lifecycle thread; a later call, by any
\* thread that is not inside another call, returns the instance.
\* mutant of INIT_LOG: the instance is not static, every call constructs a
\* LogInit and so runs Logger::init
INIT_LOG_notStatic(level, ok) ==
    /\ pcM = "m_idle"
    /\ initBody(level, ok)
    /\ logInit' = TRUE
    /\ nRepeat' = IF logInit THEN nRepeat + 1 ELSE nRepeat
    /\ firstArgs' = IF logInit THEN firstArgs ELSE <<level, ok>>

INIT_LOG(level, ok) ==
    IF logInit
    THEN /\ pcM = "m_idle" \/ \E t \in Threads : pc[t] = "idle"
         /\ calls < MaxCalls
         /\ nRepeat' = nRepeat + 1
         /\ UNCHANGED <<engineVars, syncVars, LogQueue, consVars, sinkVars,
                        callerVars, pcM, resM, logInit, nInit, nShutdown,
                        histVars, fmtVars>>
    ELSE /\ pcM = "m_idle"
         /\ initBody(level, ok)
         /\ logInit' = TRUE
         /\ firstArgs' = <<level, ok>>
         /\ UNCHANGED nRepeat

\* ------------------------------------------------------------ Logger::log
\* pending[t] holds the arguments of the latest log() call of thread t; n,
\* the number of the call among the calls of t, stands for the message text
\* mutants of log_check: the level filter before the test of the flag, and
\* a strict comparison with the threshold
log_check_filterFirst(t, level) ==
    /\ pc[t] = "idle"
    /\ calls < MaxCalls
    /\ nCall' = [nCall EXCEPT ![t] = @ + 1]
    /\ pending' = [pending EXCEPT ![t] =
                     [t |-> t, n |-> nCall[t] + 1, level |-> level]]
    /\ IF level < eLogLevel
       THEN /\ res' = [res EXCEPT ![t] = "ok"]
            /\ UNCHANGED pc
       ELSE IF bStopThread
            THEN /\ res' = [res EXCEPT ![t] = "LogException"]
                 /\ UNCHANGED pc
            ELSE /\ pc' = [pc EXCEPT ![t] = "l_lock"]
                 /\ res' = [res EXCEPT ![t] = "in_call"]
    /\ UNCHANGED <<engineVars, syncVars, LogQueue, consVars, sinkVars,
                   mainVars, histVars>>
    /\ UNCHANGED fmtVars

log_check_strict(t, level) ==
    /\ pc[t] = "idle"
    /\ calls < MaxCalls
    /\ nCall' = [nCall EXCEPT ![t] = @ + 1]
    /\ pending' = [pending EXCEPT ![t] =
                     [t |-> t, n |-> nCall[t] + 1, level |-> level]]
    /\ IF bStopThread
       THEN /\ res' = [res EXCEPT ![t] = "LogException"]
            /\ UNCHANGED pc
       ELSE IF level > eLogLevel
            THEN /\ pc' = [pc EXCEPT ![t] = "l_lock"]
                 /\ res' = [res EXCEPT ![t] = "in_call"]
            ELSE /\ res' = [res EXCEPT ![t] = "ok"]
                 /\ UNCHANGED pc
    /\ UNCHANGED <<engineVars, syncVars, LogQueue, consVars, sinkVars,
                   mainVars, histVars>>
    /\ UNCHANGED fmtVars

\* the unlocked test of _bStopThread and the level filter
log_check(t, level) ==
    /\ pc[t] = "idle"
    /\ calls < MaxCalls
    /\ nCall' = [nCall EXCEPT ![t] = @ + 1]
    /\ pending' = [pending EXCEPT ![t] =
                     [t |-> t, n |-> nCall[t] + 1, level |-> level]]
    /\ IF bStopThread
       THEN /\ res' = [res EXCEPT ![t] = "LogException"]
            /\ UNCHANGED pc
       ELSE IF level >= eLogLevel
            THEN /\ pc' = [pc EXCEPT ![t] = "l_lock"]
                 /\ res' = [res EXCEPT ![t] = "in_call"]
            ELSE /\ res' = [res EXCEPT ![t] = "ok"]
                 /\ UNCHANGED pc
    /\ UNCHANGED <<engineVars, syncVars, LogQueue, consVars, sinkVars,
                   mainVars, histVars>>
    /\ UNCHANGED fmtVars

\* LOG_DBUG / LOG_INFO / LOG_WARN / LOG_EROR: the LogStream temporary is
\* destroyed at the end of the statement and ~LogStream calls Logger::log.
\* A destructor is noexcept, so the LogException that log throws ends the
\* process in std::terminate: no thread takes another step.
LogStream_dtor(t, level) ==
    /\ pc[t] = "idle"
    /\ calls < MaxCalls
    /\ nCall' = [nCall EXCEPT ![t] = @ + 1]
    /\ pending' = [pending EXCEPT ![t] =
                     [t |-> t, n |-> nCall[t] + 1, level |-> level]]
    /\ IF bStopThread
       THEN /\ res' = [res EXCEPT ![t] = "terminate"]
            /\ pc' = [u \in Threads |-> "aborted"]
            /\ pcM' = "aborted"
            /\ pcC' = "aborted"
            /\ cvWaiters' = {}
       ELSE /\ IF level >= eLogLevel
               THEN /\ pc' = [pc EXCEPT ![t] = "l_lock"]
                    /\ res' = [res EXCEPT ![t] = "in_call"]
               ELSE /\ res' = [res EXCEPT ![t] = "ok"]
                    /\ UNCHANGED pc
            /\ UNCHANGED <<pcM, pcC, cvWaiters>>
    /\ UNCHANGED <<engineVars, tMutex, LogQueue, logEntry, sinkVars, resM,
                   logInit, nInit, nShutdown, nRepeat, histVars>>
    /\ UNCHANGED fmtVars

\* lock_guard; _LogQueue.push; notify_one; unlock; return
log_push(t) ==
    /\ pc[t] = "l_lock"
    /\ tMutex = Free
    /\ LogQueue' = Append(LogQueue, pending[t])
    /\ enq' = Append(enq, pending[t])
    /\ cvWaiters' \in notify_one(cvWaiters)
    /\ pc' = [pc EXCEPT ![t] = "idle"]
    /\ res' = [res EXCEPT ![t] = "ok"]
    /\ UNCHANGED <<engineVars, tMutex, consVars, sinkVars, pending, nCall,
                   mainVars, snap, openFailed, firstArgs>>
    /\ UNCHANGED fmtVars

\* ----------------------------------------------------------- Logger::wait
\* unique_lock; wait_for(lock, 1ms, queue empty): returns at once when the
\* predicate holds, blocks on the condition variable otherwise
wait_enter(t) ==
    /\ pc[t] = "idle"
    /\ calls < MaxCalls
    /\ tMutex = Free
    /\ nCall' = [nCall EXCEPT ![t] = @ + 1]
    /\ IF LogQueue = <<>>
       THEN /\ res' = [res EXCEPT ![t] = "ok"]
            /\ UNCHANGED <<pc, cvWaiters>>
       ELSE /\ pc' = [pc EXCEPT ![t] = "w_wait"]
            /\ res' = [res EXCEPT ![t] = "in_call"]
            /\ cvWaiters' = cvWaiters \cup {t}
    /\ UNCHANGED <<engineVars, tMutex, LogQueue, consVars, sinkVars, pending,
                   mainVars, histVars>>
    /\ UNCHANGED fmtVars

\* the 1 ms of wait_for elapse, the thread being still blocked or already
\* woken and waiting for the mutex
wait_timeout(t) ==
    /\ pc[t] = "w_wait"
    /\ cvWaiters' = cvWaiters \ {t}
    /\ pc' = [pc EXCEPT ![t] = "w_timedout"]
    /\ UNCHANGED <<engineVars, tMutex, LogQueue, consVars, sinkVars, res,
                   pending, nCall, mainVars, histVars>>
    /\ UNCHANGED fmtVars

\* mutant of wait_expire: the wait has no bound and ends only on an empty
\* queue
wait_expire_untilEmpty(t) ==
    /\ pc[t] = "w_timedout"
    /\ tMutex = Free
    /\ LogQueue = <<>>
    /\ pc' = [pc EXCEPT ![t] = "idle"]
    /\ res' = [res EXCEPT ![t] = "ok"]
    /\ UNCHANGED <<engineVars, syncVars, LogQueue, consVars, sinkVars,
                   pending, nCall, mainVars, histVars>>
    /\ UNCHANGED fmtVars

\* after the timeout: relock, return the predicate's value (discarded)
wait_expire(t) ==
    /\ pc[t] = "w_timedout"
    /\ tMutex = Free
    /\ pc' = [pc EXCEPT ![t] = "idle"]
    /\ res' = [res EXCEPT ![t] = "ok"]
    /\ UNCHANGED <<engineVars, syncVars, LogQueue, consVars, sinkVars,
                   pending, nCall, mainVars, histVars>>
    /\ UNCHANGED fmtVars

\* woken before the 1 ms have elapsed: relock, test the predicate, return
\* if it holds and wait again otherwise
wait_woken(t) ==
    /\ pc[t] = "w_wait"
    /\ t \notin cvWaiters
    /\ tMutex = Free
    /\ IF LogQueue = <<>>
       THEN /\ pc' = [pc EXCEPT ![t] = "idle"]
            /\ res' = [res EXCEPT ![t] = "ok"]
            /\ UNCHANGED cvWaiters
       ELSE /\ cvWaiters' = cvWaiters \cup {t}
            /\ UNCHANGED <<pc, res>>
    /\ UNCHANGED <<engineVars, tMutex, LogQueue, consVars, sinkVars, pending,
                   nCall, mainVars, histVars>>
    /\ UNCHANGED fmtVars

\* ------------------------------------------------------- Logger::shutdown
\* { lock_guard; _bStopThread = true; }
shutdown_stop ==
    /\ pcM = "m_idle"
    /\ calls < MaxCalls
    /\ tMutex = Free
    /\ bStopThread' = TRUE
    /\ pcM' = "sd_notify"
    /\ nShutdown' = nShutdown + 1
    /\ snap' = enq
    /\ UNCHANGED <<eLogLevel, fileOpen, syncVars, LogQueue, consVars,
                   sinkVars, callerVars, resM, logInit, nInit, nRepeat, enq,
                   openFailed, firstArgs>>
    /\ UNCHANGED fmtVars

\* _tLogQueueCondition.notify_one()
shutdown_notify ==
    /\ pcM = "sd_notify"
    /\ cvWaiters' \in notify_one(cvWaiters)
    /\ pcM' = "sd_join"
    /\ UNCHANGED <<engineVars, tMutex, LogQueue, consVars, sinkVars,
                   callerVars, resM, logInit, nInit, nShutdown, nRepeat,
                   histVars>>
    /\ UNCHANGED fmtVars

\* _tAsyncThread.join(): std::system_error when the thread is not joinable,
\* otherwise blocks until _processLogQueue has returned
shutdown_join ==
    /\ pcM = "sd_join"
    /\ IF ~joinable
       THEN /\ resM' = "system_error"
            /\ UNCHANGED pcC
       ELSE /\ pcC = "c_exited"
            /\ pcC' = "c_joined"
            /\ resM' = "ok"
    /\ pcM' = "m_idle"
    /\ UNCHANGED <<engineVars, syncVars, LogQueue, logEntry, sinkVars,
                   callerVars, logInit, nInit, nShutdown, nRepeat, histVars>>
    /\ UNCHANGED fmtVars

\* ----------------------------------------------- Logger::_processLogQueue
\* while (!_bStopThread): read without the lock
processLogQueue_while ==
    /\ pcC = "c_while"
    /\ pcC' = IF bStopThread THEN "c_exited" ELSE "c_lock"
    /\ UNCHANGED <<engineVars, syncVars, LogQueue, logEntry, sinkVars,
                   callerVars, mainVars, histVars>>
    /\ UNCHANGED fmtVars

\* the predicate of the condition wait
wakePredicate == bStopThread \/ LogQueue # <<>>

\* unique_lock lock(_tMutex); wait(lock, pred): keeps the lock if the
\* predicate holds, otherwise releases it and blocks
processLogQueue_lock ==
    /\ pcC = "c_lock"
    /\ tMutex = Free
    /\ IF wakePredicate
       THEN /\ tMutex' = Consumer
            /\ pcC' = "c_inner"
            /\ UNCHANGED cvWaiters
       ELSE /\ cvWaiters' = cvWaiters \cup {Consumer}
            /\ pcC' = "c_wait"
            /\ UNCHANGED tMutex
    /\ UNCHANGED <<engineVars, LogQueue, logEntry, sinkVars, callerVars,
                   mainVars, histVars>>
    /\ UNCHANGED fmtVars

\* woken: relock and test the predicate again
processLogQueue_woken ==
    /\ pcC = "c_wait"
    /\ Consumer \notin cvWaiters
    /\ tMutex = Free
    /\ IF wakePredicate
       THEN /\ tMutex' = Consumer
            /\ pcC' = "c_inner"
            /\ UNCHANGED cvWaiters
       ELSE /\ cvWaiters' = cvWaiters \cup {Consumer}
            /\ UNCHANGED <<tMutex, pcC>>
    /\ UNCHANGED <<engineVars, LogQueue, logEntry, sinkVars, callerVars,
                   mainVars, histVars>>
    /\ UNCHANGED fmtVars

\* mutant of processLogQueue_inner: the consumer takes the front record and
\* empties the queue
processLogQueue_inner_clear ==
    /\ pcC = "c_inner"
    /\ tMutex = Consumer
    /\ IF LogQueue = <<>>
       THEN /\ pcC' = "c_while"
            /\ UNCHANGED <<LogQueue, logEntry>>
       ELSE /\ logEntry' = Head(LogQueue)
            /\ LogQueue' = <<>>
            /\ pcC' = "c_write"
    /\ tMutex' = Free
    /\ UNCHANGED <<engineVars, cvWaiters, sinkVars, callerVars, mainVars,
                   histVars>>
    /\ UNCHANGED fmtVars

\* mutant of processLogQueue_inner: the consumer takes the record at the
\* back of the queue
processLogQueue_inner_back ==
    /\ pcC = "c_inner"
    /\ tMutex = Consumer
    /\ IF LogQueue = <<>>
       THEN /\ pcC' = "c_while"
            /\ UNCHANGED <<LogQueue, logEntry>>
       ELSE /\ logEntry' = LogQueue[Len(LogQueue)]
            /\ LogQueue' = SubSeq(LogQueue, 1, Len(LogQueue) - 1)
            /\ pcC' = "c_write"
    /\ tMutex' = Free
    /\ UNCHANGED <<engineVars, cvWaiters, sinkVars, callerVars, mainVars,
                   histVars>>
    /\ UNCHANGED fmtVars

\* mutant of processLogQueue_inner: no lock.unlock() after the pop
processLogQueue_inner_keepLock ==
    /\ pcC = "c_inner"
    /\ tMutex = Consumer
    /\ IF LogQueue = <<>>
       THEN /\ pcC' = "c_while"
            /\ tMutex' = Free
            /\ UNCHANGED <<LogQueue, logEntry>>
       ELSE /\ logEntry' = Head(LogQueue)
            /\ LogQueue' = Tail(LogQueue)
            /\ pcC' = "c_write"
            /\ UNCHANGED tMutex
    /\ UNCHANGED <<engineVars, cvWaiters, sinkVars, callerVars, mainVars,
                   histVars>>
    /\ UNCHANGED fmtVars

\* while (!_LogQueue.empty()) { front; pop; lock.unlock(); ...; on an empty
\* queue the unique_lock goes out of scope and the outer loop tests again
processLogQueue_inner ==
    /\ pcC = "c_inner"
    /\ tMutex = Consumer
    /\ IF LogQueue = <<>>
       THEN /\ pcC' = "c_while"
            /\ UNCHANGED <<LogQueue, logEntry>>
       ELSE /\ logEntry' = Head(LogQueue)
            /\ LogQueue' = Tail(LogQueue)
            /\ pcC' = "c_write"
    /\ tMutex' = Free
    /\ UNCHANGED <<engineVars, cvWaiters, sinkVars, callerVars, mainVars,
                   histVars>>
    /\ UNCHANGED fmtVars

\* _formatLogMessage; if (is_open) { _tFileStream << logMessage; flush };
\* std::cout << coloredMessage
processLogQueue_write ==
    /\ pcC = "c_write"
    /\ file' = IF fileOpen THEN Append(file, logEntry) ELSE file
    /\ console' = Append(console, logEntry)
    /\ logEntry' = NoEntry
    /\ pcC' = "c_relock"
    /\ UNCHANGED <<engineVars, syncVars, LogQueue, callerVars, mainVars,
                   histVars>>
    /\ UNCHANGED fmtVars

\* lock.lock()
processLogQueue_relock ==
    /\ pcC = "c_relock"
    /\ tMutex = Free
    /\ tMutex' = Consumer
    /\ pcC' = "c_inner"
    /\ UNCHANGED <<engineVars, cvWaiters, LogQueue, logEntry, sinkVars,
                   callerVars, mainVars, histVars>>
    /\ UNCHANGED fmtVars

\* a condition wait may end without a notification
spurious_wakeup ==
    /\ \E w \in cvWaiters : cvWaiters' = cvWaiters \ {w}
    /\ UNCHANGED <<engineVars, tMutex, LogQueue, consVars, sinkVars,
                   callerVars, mainVars, histVars>>
    /\ UNCHANGED fmtVars

\* ------------------------------- _formatLogMessage, _extractFilename
\* A path is the sequence of the characters before the terminating NUL;
\* filePath[i] for i = Len(filePath) + 1 stands for the NUL.
PathChars == {"/", "\\", "a", "b"}
Paths == UNION {[1..n -> PathChars] : n \in 0..MaxPathLen}

\* the func and line arguments of the record being formatted
func == <<"f">>
line == <<"7">>

\* _formatLogMessage is about to call _extractFilename(file)
FormatInit ==
    /\ LoggerInit
    /\ filePath \in Paths
    /\ ptr = 1
    /\ filename = 1
    /\ extracted = <<>>
    /\ oss = <<>>
    /\ fmtPc = "x_loop"

\* mutant of extractFilename_loop: only '/' is taken as a separator
extractFilename_loop_slashOnly ==
    /\ fmtPc = "x_loop"
    /\ ptr <= Len(filePath)
    /\ filename' = IF filePath[ptr] = "/" THEN ptr + 1 ELSE filename
    /\ ptr' = ptr + 1
    /\ UNCHANGED <<loggerVars, filePath, extracted, oss, fmtPc>>

\* while (*ptr) { if (*ptr == '/' || *ptr == '\\') filename = ptr + 1; ptr++; }
extractFilename_loop ==
    /\ fmtPc = "x_loop"
    /\ ptr <= Len(filePath)
    /\ filename' = IF filePath[ptr] = "/" \/ filePath[ptr] = "\\"
                   THEN ptr + 1
                   ELSE filename
    /\ ptr' = ptr + 1
    /\ UNCHANGED <<loggerVars, filePath, extracted, oss, fmtPc>>

\* *ptr is the NUL; return filename: the std::string made of the characters
\* from *filename up to the NUL
extractFilename_return ==
    /\ fmtPc = "x_loop"
    /\ ptr = Len(filePath) + 1
    /\ extracted' = SubSeq(filePath, filename, Len(filePath))
    /\ fmtPc' = "x_fmt"
    /\ UNCHANGED <<loggerVars, filePath, ptr, filename, oss>>

\* oss << " (" << _extractFilename(file) << " " << func << ":" << line << ")"
formatLogMessage ==
    /\ fmtPc = "x_fmt"
    /\ oss' = <<" ", "(">> \o extracted \o <<" ">> \o func \o <<":">> \o line
                  \o <<")">>
    /\ fmtPc' = "x_done"
    /\ UNCHANGED <<loggerVars, filePath, ptr, filename, extracted>>

FormatNext ==
    \/ extractFilename_loop
    \/ extractFilename_return
    \/ formatLogMessage

FormatSpec == FormatInit /\ [][FormatNext]_vars

\* ------------------------------------------------------------------ Next
consumerStep ==
    \/ processLogQueue_while
    \/ processLogQueue_lock
    \/ processLogQueue_woken
    \/ processLogQueue_inner
    \/ processLogQueue_write
    \/ processLogQueue_relock

Next ==
    \/ \E l \in InitLevels, ok \in BOOLEAN : init(l, ok)
    \/ \E l \in InitLevels, ok \in BOOLEAN : INIT_LOG(l, ok)
    \/ \E t \in Threads, l \in LogLevels : log_check(t, l)
    \/ \E t \in Threads : log_push(t)
    \/ \E t \in Threads : wait_enter(t)
    \/ \E t \in Threads : wait_timeout(t)
    \/ \E t \in Threads : wait_expire(t)
    \/ \E t \in Threads : wait_woken(t)
    \/ shutdown_stop
    \/ shutdown_notify
    \/ shutdown_join
    \/ consumerStep
    \/ spurious_wakeup

Spec == Init /\ [][Next]_vars

\* programs that also log through the LOG_* macros
SiteNext ==
    \/ Next
    \/ \E t \in Threads, l \in LogLevels : LogStream_dtor(t, l)

SiteSpec == Init /\ [][SiteNext]_vars

\* Every thread that is inside a call keeps running, and the 1 ms of a
\* wait_for elapse.  Whether a thread makes another call is up to the
\* program, and a spurious wakeup is never owed: no fairness for those.
Fairness ==
    /\ \A t \in Threads : WF_vars(log_push(t))
    /\ \A t \in Threads : WF_vars(wait_timeout(t))
    /\ \A t \in Threads : WF_vars(wait_expire(t))
    /\ \A t \in Threads : WF_vars(wait_woken(t))
    /\ WF_vars(shutdown_notify)
    /\ WF_vars(shutdown_join)
    /\ WF_vars(consumerStep)

FairSpec == Spec /\ Fairness

\* The 1 ms of every wait_for elapse, a thread whose wait_for has timed out
\* keeps running, and the consumer leaves the critical section it is in;
\* nothing else is assumed of the consumer, which may stay in its formatting
\* and writing for ever, nor of the other threads.
WaitFairness ==
    /\ \A t \in Threads : WF_vars(wait_timeout(t))
    /\ \A t \in Threads : WF_vars(wait_expire(t))
    /\ WF_vars(processLogQueue_inner)

WaitSpec == Spec /\ WaitFairness

TypeOK ==
    /\ bStopThread \in BOOLEAN
    /\ eLogLevel \in DBUG..EROR
    /\ tMutex \in {Free, Consumer}
    /\ cvWaiters \subseteq (Threads \cup {Consumer})

\* ------------------------------------------------------------ vocabulary
Range(s) == {s[i] : i \in DOMAIN s}

count(s, r) == Cardinality({i \in DOMAIN s : s[i] = r})

before(s, a, b) == \E i, j \in DOMAIN s : i < j /\ s[i] = a /\ s[j] = b

\* records thread t has pushed
pushedBy(t) == {r \in Range(enq) : r.t = t}

\* thread t makes a log() call in this step
LogCall(t) == pending'[t] # pending[t]

\* thread t makes a wait() call in this step
WaitCall(t) == nCall'[t] = nCall[t] + 1 /\ pending'[t] = pending[t]

\* a wait() call of thread t returns in this step
WaitReturn(t) ==
    \/ WaitCall(t) /\ pc'[t] = "idle"
    \/ pc[t] \in {"w_wait", "w_timedout"} /\ pc'[t] = "idle"

\* some shutdown() has joined the thread
shutdownReturned == state = "Stopped" \/ nInit >= 2

\* ------------------------------------------------------------------- C1
\* C1: once a shutdown() of a Running engine has returned, every record
\* whose log() call returned before that shutdown() was called is in the
\* file exactly once, and the records of one thread are in the file in the
\* order the thread logged them (the file having been opened by every init).
C1_AllWrittenOnceInOrder ==
    (state = "Stopped" /\ pcM = "m_idle" /\ resM = "ok" /\ ~openFailed) =>
        /\ \A i \in DOMAIN snap : count(file, snap[i]) = 1
        /\ \A i, j \in DOMAIN snap :
              (i < j /\ snap[i].t = snap[j].t) => before(file, snap[i], snap[j])

\* ------------------------------------------------------------------- C2
\* C2: a log() call made while the engine is Uninitialized or Stopped
\* throws LogException, whatever its level, and leaves the queue as it was.
C2_LogOutsideRunningThrows ==
    [][\A t \in Threads :
         (LogCall(t) /\ state \in {"Uninitialized", "Stopped"}) =>
             /\ res'[t] = "LogException"
             /\ pc'[t] = "idle"
             /\ LogQueue' = LogQueue
             /\ enq' = enq]_vars

\* a thread that had logged a record before made a later log() call that
\* threw, and the engine is Stopped
C2_Witness ==
    /\ state = "Stopped"
    /\ \E t \in Threads :
          /\ res[t] = "LogException"
          /\ pending[t] # NoEntry
          /\ pending[t].n = nCall[t]
          /\ pushedBy(t) # {}

\* ------------------------------------------------------------------- C3
\* C3: while the engine is Running, a log() call below the threshold
\* returns normally with the queue unchanged, and a log() call at or above
\* the threshold does not throw and pushes exactly its one record; the
\* sinks hold only records that were pushed.
C3_FilterBelowThreshold ==
    /\ [][\A t \in Threads :
            /\ (LogCall(t) /\ state = "Running") =>
                  IF pending'[t].level < eLogLevel
                  THEN /\ res'[t] = "ok"
                       /\ pc'[t] = "idle"
                       /\ LogQueue' = LogQueue
                  ELSE /\ res'[t] = "in_call"
                       /\ pc'[t] = "l_lock"
                       /\ LogQueue' = LogQueue
            /\ (pc[t] = "l_lock" /\ pc'[t] # "l_lock") =>
                  /\ res'[t] = "ok"
                  /\ pc'[t] = "idle"
                  /\ LogQueue' = Append(LogQueue, pending[t])]_vars
    /\ [](Range(file) \cup Range(console) \subseteq Range(enq))

\* in the first Running period a call below the threshold has returned
\* normally and no record of it exists
C3_Witness ==
    /\ state = "Running"
    /\ nInit = 1
    /\ \E t \in Threads :
          /\ pending[t] # NoEntry
          /\ pending[t].level < eLogLevel
          /\ res[t] = "ok"
          /\ pending[t] \notin Range(enq)

\* ------------------------------------------------------------------- C4
\* C4: a shutdown() called on a Running engine eventually returns, the
\* consumer thread joined.
C4_ShutdownReturns == (state = "Stopping") ~> (state = "Stopped")

\* ------------------------------------------------------------------- C5
\* C5: once a shutdown() has returned, nothing is written to the file or
\* to the console any more, whatever is called afterwards.
C5_NoWriteAfterShutdown ==
    [][shutdownReturned => (file' = file /\ console' = console)]_vars

\* ------------------------------------------------------------------- C6
\* C6: the file is written by the consumer thread only, one whole record
\* per step; once the queue is drained the file holds exactly the records
\* that were pushed, each once, so N threads that pushed M records each
\* leave N*M lines (the file having been opened by every init).
Drained ==
    /\ LogQueue = <<>>
    /\ logEntry = NoEntry
    /\ \A t \in Threads : pc[t] # "l_lock"

C6_ExactlyNMWholeLines ==
    /\ []((Drained /\ ~openFailed) =>
            /\ file = enq
            /\ \A r \in Range(enq) : count(file, r) = 1
            /\ \A m \in 0..MaxCalls :
                  (\A t \in Threads : Cardinality(pushedBy(t)) = m)
                      => Len(file) = NumThreads * m)
    /\ [][file' # file =>
            /\ pcC = "c_write"
            /\ tMutex # Consumer
            /\ file' = Append(file, logEntry)
            /\ logEntry' = NoEntry]_vars

\* every caller thread has pushed one record, the last thread's record was
\* taken first, and all of them are written
C6_Witness ==
    /\ Drained
    /\ ~openFailed
    /\ \A t \in Threads : Cardinality(pushedBy(t)) = 1
    /\ Len(file) = NumThreads
    /\ file[1].t = NumThreads

\* ------------------------------------------------------------------- C7
\* C7: when a wait() call made on a Running engine returns, every record
\* its thread had logged before is written to the console.
C7_WaitReturnsAfterWrites ==
    [][\A t \in Threads :
         (WaitReturn(t) /\ state = "Running") =>
             pushedBy(t) \subseteq Range(console')]_vars

C9_SecondShutdownThrowsLogException ==
    [][(pcM = "sd_join" /\ state = "Stopped" /\ pcM' = "m_idle")
          => resM' = "LogException"]_vars

\* ------------------------------------------------------------------ C10
\* C10: an init() whose file cannot be opened returns normally with the
\* consumer started and the engine Running; while the file is closed every
\* record the consumer takes goes to the console and none to the file, no
\* log() call on the Running engine throws and the shutdown() that joins
\* the thread returns normally.
C10_ConsoleOnlyWhenOpenFails ==
    [][/\ (nInit' = nInit + 1 /\ ~fileOpen') =>
             /\ resM' = "ok"
             /\ pcC' = "c_while"
             /\ ~bStopThread'
             /\ state' = "Running"
       /\ (~fileOpen /\ nInit' = nInit) => file' = file
       /\ (~fileOpen /\ pcC = "c_write" /\ pcC' # "c_write") =>
             console' = Append(console, logEntry)
       /\ \A t \in Threads :
             (~fileOpen /\ LogCall(t) /\ state = "Running") =>
                 res'[t] # "LogException"
       /\ (~fileOpen /\ pcM = "sd_join" /\ joinable /\ pcM' = "m_idle") =>
             resM' = "ok"]_vars

\* the one init of the run failed to open the file, the engine has been
\* shut down normally, and a record is on the console and none in the file
C10_Witness ==
    /\ nInit = 1
    /\ ~fileOpen
    /\ state = "Stopped"
    /\ resM = "ok"
    /\ console # <<>>
    /\ file = <<>>

\* ------------------------------------------------------------------ C11
\* C11: an INIT_LOG call that finds the LogInit instance made runs no
\* Logger::init and leaves the threshold, the file sink, the stop flag, the
\* consumer thread, the queue and the lifecycle state as they were; the
\* first INIT_LOG call runs Logger::init once, with its own arguments and
\* with no consumer thread in existence; where INIT_LOG made the only init,
\* the threshold and the sink are those of the first call; and a log() call
\* on the Running engine after a repeated INIT_LOG does not throw.
C11_InitLogRunsInitOnce ==
    /\ [][/\ (nRepeat' # nRepeat) =>
                /\ logInit
                /\ nInit' = nInit
                /\ eLogLevel' = eLogLevel
                /\ fileOpen' = fileOpen
                /\ bStopThread' = bStopThread
                /\ pcC' = pcC
                /\ LogQueue' = LogQueue
                /\ state' = state
          /\ (~logInit /\ logInit') =>
                /\ ~joinable
                /\ nInit' = nInit + 1
                /\ state' = "Running"
                /\ eLogLevel' = firstArgs'[1]
                /\ fileOpen' = firstArgs'[2]
          /\ \A t \in Threads :
                (nRepeat >= 1 /\ LogCall(t) /\ state = "Running") =>
                    res'[t] # "LogException"]_vars
    /\ []((logInit /\ nInit = 1) =>
            /\ eLogLevel = firstArgs[1]
            /\ fileOpen = firstArgs[2])

\* INIT_LOG has been called again on the Running engine, whose threshold is
\* the WARN of the first call, and a record has been pushed
C11_Witness ==
    /\ nRepeat >= 1
    /\ nInit = 1
    /\ state = "Running"
    /\ firstArgs = <<WARN, TRUE>>
    /\ eLogLevel = WARN
    /\ \E t \in Threads : res[t] = "ok" /\ pending[t] # NoEntry

\* ------------------------------------------------------------------ C12
\* C12: a logging statement made while the engine is Uninitialized or
\* Stopped ends with LogException in the calling thread, which goes on, and
\* the process is not ended.
C12_CallSiteErrorPropagates ==
    [][\A t \in Threads :
         (LogCall(t) /\ state \in {"Uninitialized", "Stopped"}) =>
             /\ res'[t] = "LogException"
             /\ pc'[t] = "idle"
             /\ state' # "Aborted"]_vars

\* ------------------------------------------------------------------ C13
\* the consumer thread has returned from _processLogQueue
consumerExited == pcC \in {"c_exited", "c_joined"}

\* C13: in every state in which the consumer thread has left
\* _processLogQueue the stop flag is set and no record that was pushed
\* before shutdown() was called is in the queue.
C13_ExitOnlyWhenDrained ==
    consumerExited =>
        /\ bStopThread
        /\ \A i \in DOMAIN snap : snap[i] \notin Range(LogQueue)

\* ------------------------------------------------------------------ C14
\* C14: once the consumer thread has exited, every record that a log()
\* call pushed after shutdown() was called (the call returned normally)
\* is written: none stays in the queue.
C14_LogRacingShutdown ==
    consumerExited =>
        \A r \in Range(enq) :
            r \notin Range(snap) => r \in Range(console)

\* ------------------------------------------------------------------ C15
\* the record the consumer holds, as a sequence
held == IF logEntry = NoEntry THEN <<>> ELSE <<logEntry>>

\* C15: the records written, then the record the consumer holds, then the
\* queue from head to tail, are the records pushed so far in push order;
\* the records of one thread are written in the order the thread logged
\* them.
C15_QueueIsFIFO ==
    /\ console \o held \o LogQueue = enq
    /\ \A i, j \in DOMAIN console :
          (i < j /\ console[i].t = console[j].t) => console[i].n < console[j].n

\* one record is written, the consumer holds a second and a third is in
\* the queue, and they come from both threads
C15_Witness ==
    /\ console # <<>>
    /\ logEntry # NoEntry
    /\ LogQueue # <<>>
    /\ \A t \in Threads : pushedBy(t) # {}

\* ------------------------------------------------------------------ C16
\* the records a run can push
Records == [t : Threads, n : 1..MaxCalls, level : LogLevels]

\* C16: a record that is in the queue of a Running engine is eventually
\* written to the console, unless the engine leaves Running first; no
\* later call is needed for it.
C16_EveryRecordWritten ==
    \A r \in Records :
        (r \in Range(LogQueue) /\ state = "Running")
            ~> (r \in Range(console) \/ state # "Running")

\* ------------------------------------------------------------------ C17
\* C17: the consumer holds the mutex only while it tests the queue and
\* removes a record; while it formats and writes a record the mutex is
\* free, and a log() call that is about to push can do so.
C17_NoLockWhileWriting ==
    /\ tMutex = Consumer => pcC = "c_inner"
    /\ pcC = "c_write" =>
          /\ tMutex = Free
          /\ \A t \in Threads : pc[t] = "l_lock" => ENABLED log_push(t)

\* the consumer is writing a record while a log() call is about to push
\* and another record waits in the queue
C17_Witness ==
    /\ pcC = "c_write"
    /\ logEntry # NoEntry
    /\ LogQueue # <<>>
    /\ \E t \in Threads : pc[t] = "l_lock"

\* ------------------------------------------------------------------ C18
\* C18: once a shutdown() has joined the consumer thread the engine stays
\* Stopped: the stop flag stays set and no consumer thread is started.
C18_StoppedIsTerminal ==
    [][state = "Stopped" =>
          /\ state' = "Stopped"
          /\ bStopThread'
          /\ ~joinable']_vars

\* ------------------------------------------------------------------ C19
Separators == {"/", "\\"}

\* index of the last separator of path p, 0 if it has none
LastSeparator(p) ==
    IF \E i \in DOMAIN p : p[i] \in Separators
    THEN CHOOSE i \in DOMAIN p :
            /\ p[i] \in Separators
            /\ \A j \in DOMAIN p : p[j] \in Separators => j <= i
    ELSE 0

\* the part of path p after its last separator
Basename(p) == SubSeq(p, LastSeparator(p) + 1, Len(p))

\* C19: _extractFilename returns the part of the path after its last '/'
\* or '\', whichever comes later: the whole path when it has neither, the
\* empty string when it ends with one; the result holds no separator, and
\* the formatted line holds it as "(basename function:line)".
C19_ExtractFilenameIsBasename ==
    /\ fmtPc \in {"x_fmt", "x_done"} =>
          /\ extracted = Basename(filePath)
          /\ \A i \in DOMAIN extracted : extracted[i] \notin Separators
          /\ (\A i \in DOMAIN filePath : filePath[i] \notin Separators)
                => extracted = filePath
          /\ (filePath # <<>> /\ filePath[Len(filePath)] \in Separators)
                => extracted = <<>>
    /\ fmtPc = "x_done" =>
          oss = <<" ", "(">> \o Basename(filePath) \o <<" ", "f", ":", "7", ")">>

\* a path with both separators, the backslash last, has been formatted
C19_Witness ==
    /\ fmtPc = "x_done"
    /\ filePath = <<"/", "\\", "b">>
    /\ extracted = <<"b">>
    /\ oss = <<" ", "(", "b", " ", "f", ":", "7", ")">>
=============================================================================
